---- MODULE Spec2Model ----
(***************************************************************************)
(* A model of scripts/tunnel_poc.py: the Tunnel object (one paramiko       *)
(* transport and a dict of EndPoints), the EndPoint (a ThreadedTCPServer   *)
(* and the thread that runs serve_forever) and the request handler that    *)
(* relays bytes between an accepted client socket and an SSH channel.      *)
(*                                                                         *)
(* Threads of the program are modelled as interleaved steps:               *)
(*   - caller threads, which call the Tunnel's methods;                    *)
(*   - one serve_forever thread per enabled EndPoint;                      *)
(*   - one request thread per accepted client (ThreadingMixIn).            *)
(* The operating system (ports, listen queues), the SSH transport and the  *)
(* two peers of a relay are the environment.                               *)
(***************************************************************************)
EXTENDS Integers, Sequences, FiniteSets, TLC

(* ------------------------------- bounds ------------------------------- *)
NumCallers == 2
NumPorts == 2
MaxEndpoints == 2
MaxClients == 2
MaxDisconnects == 2
MaxMsg == 0
MaxStream == 2
NumBytes == 2

\* the size handed to recv in the relay loop
RecvSize == 1024

Callers == 1..NumCallers
Ports == 1..NumPorts
\* the remote address asked for in the n-th call of add_endpoint: each call
\* names another one, written apart from the local ports
RemoteOf(n) == NumPorts + n
Bytes == 1..NumBytes
Platforms == {"posix", "windows"}

(* ------------------------------- state -------------------------------- *)
VARIABLES
    platform,       \* the socket semantics of the host the program runs on
    tstate,         \* "new": Tunnel(...) not yet called, "up": constructed, "failed": it raised
    transport,      \* self.transport: [active, authenticated, closes]
    connected,      \* self.connected
    end_points,     \* self.end_points: a dict, as a sequence of [name, ep] in insertion order
    eps,            \* the EndPoint objects ever constructed, with their server
    threadCounter,  \* threading's counter behind the names Thread-N
    pc,             \* where each caller thread is
    loc,            \* the locals of each caller thread's call
    conns,          \* the accepted connections, each with its request thread
    returned,       \* history: what add_endpoint has returned
    removed         \* history: the registered names remove_endpoint has returned for

vars == <<platform, tstate, transport, connected, end_points, eps, threadCounter,
          pc, loc, conns, returned, removed>>

tunnelVars == <<platform, tstate, transport, connected, end_points, eps, threadCounter,
                pc, loc, returned, removed>>

(* ------------------------------ helpers ------------------------------- *)
Min(a, b) == IF a < b THEN a ELSE b

SeqsUpTo(S, n) == UNION {[1..k -> S] : k \in 0..n}

\* the dict self.end_points
Keys(d) == {d[i].name : i \in DOMAIN d}

Lookup(d, name) == (CHOOSE i \in DOMAIN d : d[i].name = name)

DictGet(d, name) == d[Lookup(d, name)].ep

DictSet(d, name, ep) ==
    IF name \in Keys(d)
    THEN [d EXCEPT ![Lookup(d, name)].ep = ep]
    ELSE Append(d, [name |-> name, ep |-> ep])

NoLoc == [name |-> 0, port |-> 0, remote |-> 0, obj |-> 0, it |-> 0, used |-> 0,
          res |-> <<>>, err |-> "none"]

\* EndPoint.__init__
NewEndPoint(local_address, remote_address) ==
    [local_address |-> local_address, remote_address |-> remote_address,
     thread |-> 0, server |-> FALSE,
     sock |-> "none", port |-> 0, loop |-> "none",
     shutdown_request |-> FALSE, is_shut_down |-> FALSE, backlog |-> 0]

\* EndPoint.get
Get(e) == <<e.local_address, e.remote_address>>

\* EndPoint.getId
GetId(e) == e.thread

(* ------------------------- the host's sockets ------------------------- *)
\* the probe sockets of _find_unused_local_port that are still open
ProbeOn(p) == \E c \in Callers : pc[c] = "add_release" /\ loc[c].port = p

ServerSockOn(p, states) ==
    {o \in DOMAIN eps : eps[o].sock \in states /\ eps[o].port = p}

PortFree(p) == ~ProbeOn(p) /\ ServerSockOn(p, {"bound", "listening"}) = {}

\* bind of the server's socket, which has SO_REUSEADDR set
BindAllowed(o, p) ==
    /\ ~ProbeOn(p)
    /\ platform = "posix" => ServerSockOn(p, {"listening"}) \ {o} = {}

\* listen on the server's socket
ListenAllowed(o, p) ==
    platform = "posix" => ServerSockOn(p, {"listening"}) \ {o} = {}

(* ------------------------------- Init --------------------------------- *)
\* the Tunnel in state ts on one of the hosts, with no end point yet
InitOn(hosts, ts) ==
    /\ platform \in hosts
    /\ tstate = ts
    /\ transport = [active |-> ts = "up", authenticated |-> ts = "up", closes |-> 0]
    /\ connected = (ts = "up")
    /\ end_points = <<>>
    /\ eps = <<>>
    /\ threadCounter = 0
    /\ pc = [c \in Callers |-> "idle"]
    /\ loc = [c \in Callers |-> NoLoc]
    /\ conns = <<>>
    /\ returned = {}
    /\ removed = {}

(* ------------------------- Tunnel construction ------------------------ *)
\* Tunnel.is_connected
is_connected(t) == t.active /\ t.authenticated

\* the outcomes of paramiko's Transport.connect(**auth_data): it raises, or it
\* returns with the transport authenticated or (no password and no key given:
\* no authentication is attempted) unauthenticated
ConnectOutcomes ==
    {[raised |-> TRUE, active |-> FALSE, authenticated |-> FALSE],
     [raised |-> FALSE, active |-> TRUE, authenticated |-> TRUE],
     [raised |-> FALSE, active |-> TRUE, authenticated |-> FALSE]}

\* Tunnel.__init__ with _connect
Construct ==
    /\ tstate = "new"
    /\ \E out \in ConnectOutcomes :
        IF out.raised
        THEN /\ tstate' = "failed"
             /\ UNCHANGED <<transport, connected>>
        ELSE /\ transport' = [transport EXCEPT !.active = out.active,
                                               !.authenticated = out.authenticated]
             /\ connected' = is_connected(transport')
             /\ tstate' = "up"
    /\ UNCHANGED <<platform, end_points, eps, threadCounter, pc, loc, conns,
                   returned, removed>>

(* ---------------------------- add_endpoint ---------------------------- *)
\* a call returns to its caller
Return(c) ==
    /\ pc' = [pc EXCEPT ![c] = "idle"]
    /\ loc' = [loc EXCEPT ![c] = NoLoc]

\* a call is left by an exception, which reaches its caller
Raise(c, err) ==
    /\ pc' = [pc EXCEPT ![c] = "raised"]
    /\ loc' = [loc EXCEPT ![c] = [NoLoc EXCEPT !.err = err]]

Goto(c, where) == pc' = [pc EXCEPT ![c] = where]

\* the caller has handled the exception and is ready for its next call
Unwind(c) ==
    /\ pc[c] = "raised"
    /\ Return(c)
    /\ UNCHANGED <<platform, tstate, transport, connected, end_points, eps,
                   threadCounter, conns, returned, removed>>

\* the calls of add_endpoint that got a port so far
Adds == Len(eps) + Cardinality({c \in Callers : pc[c] = "add_release"})

\* add_endpoint up to the bind in _find_unused_local_port: the host picks a
\* port that no socket is bound to
AddProbe(c) ==
    /\ tstate = "up"
    /\ pc[c] = "idle"
    /\ Adds < MaxEndpoints
    /\ LET r == RemoteOf(Adds + 1)
       IN IF \E p \in Ports : PortFree(p)
          THEN \E p \in Ports :
                /\ PortFree(p)
                /\ Goto(c, "add_release")
                /\ loc' = [loc EXCEPT ![c] = [NoLoc EXCEPT !.port = p, !.remote = r]]
          ELSE Raise(c, "OSError")
    /\ UNCHANGED <<platform, tstate, transport, connected, end_points, eps,
                   threadCounter, conns, returned, removed>>

\* _find_unused_local_port returns: its socket is dropped, and closed with it;
\* then EndPoint(local_address, remote_address, self.transport)
AddRelease(c) ==
    /\ pc[c] = "add_release"
    /\ eps' = Append(eps, NewEndPoint(loc[c].port, loc[c].remote))
    /\ loc' = [loc EXCEPT ![c].obj = Len(eps) + 1]
    /\ Goto(c, "add_bind")
    /\ UNCHANGED <<platform, tstate, transport, connected, end_points,
                   threadCounter, conns, returned, removed>>

\* a bind that takes the port as a wish only, as a bind to port 0 would
BoundPortAny(p) == (p % NumPorts) + 1

\* the port the server's socket is bound to when it is asked for port p
BoundPort(p) == p

\* a server whose constructor fails and leaves its socket as it is
ConstructFailedOpen(e) == e

\* ThreadedTCPServer(...) fails in server_bind or server_activate: the
\* constructor closes the socket it made and raises again
ConstructFailed(e) == [e EXCEPT !.sock = "closed"]

\* enable, _enable: ThreadedTCPServer(self.local_address, ...), server_bind
AddBind(c) ==
    /\ pc[c] = "add_bind"
    /\ LET o == loc[c].obj
           p == eps[o].local_address
       IN IF BindAllowed(o, p)
          THEN /\ eps' = [eps EXCEPT ![o].sock = "bound", ![o].port = BoundPort(p)]
               /\ Goto(c, "add_activate")
               /\ UNCHANGED loc
          ELSE /\ eps' = [eps EXCEPT ![o] = ConstructFailed(eps[o])]
               /\ Raise(c, "OSError")
    /\ UNCHANGED <<platform, tstate, transport, connected, end_points,
                   threadCounter, conns, returned, removed>>

\* _enable: server_activate (listen)
AddActivate(c) ==
    /\ pc[c] = "add_activate"
    /\ LET o == loc[c].obj
       IN IF ListenAllowed(o, eps[o].port)
          THEN /\ eps' = [eps EXCEPT ![o].sock = "listening"]
               /\ Goto(c, "add_start")
               /\ UNCHANGED loc
          ELSE /\ eps' = [eps EXCEPT ![o] = ConstructFailed(eps[o])]
               /\ Raise(c, "OSError")
    /\ UNCHANGED <<platform, tstate, transport, connected, end_points,
                   threadCounter, conns, returned, removed>>

\* thread names that start again at Thread-1 after Thread-2
ThreadNameWrapped(counter) == (counter % 2) + 1

\* threading.Thread() without a name: Thread-N, N the next value of the
\* module's counter
ThreadName(counter) == counter + 1

\* _enable: the thread of serve_forever is created and started, and
\* self.thread and self.server are set
AddStart(c) ==
    /\ pc[c] = "add_start"
    /\ LET o == loc[c].obj
       IN /\ threadCounter' = threadCounter + 1
          /\ eps' = [eps EXCEPT ![o].thread = ThreadName(threadCounter),
                                ![o].server = TRUE,
                                ![o].loop = "started"]
    /\ Goto(c, "add_register")
    /\ UNCHANGED <<platform, tstate, transport, connected, end_points, loc,
                   conns, returned, removed>>

\* add_endpoint: self.end_points[new_endpoint.getId()] = new_endpoint, and
\* the return of the identifier
AddRegister(c) ==
    /\ pc[c] = "add_register"
    /\ LET o == loc[c].obj
           id == GetId(eps[o])
       IN /\ end_points' = DictSet(end_points, id, o)
          /\ returned' = returned \cup {[id |-> id, ep |-> o, remote |-> loc[c].remote]}
    /\ Return(c)
    /\ UNCHANGED <<platform, tstate, transport, connected, eps, threadCounter,
                   conns, removed>>

add_endpoint(c) ==
    \/ AddProbe(c)
    \/ AddRelease(c)
    \/ AddBind(c)
    \/ AddActivate(c)
    \/ AddStart(c)
    \/ AddRegister(c)

(* --------------------------- remove_endpoint -------------------------- *)
\* the names a caller may pass: every thread name the run can produce
Names == 1..(MaxEndpoints + MaxClients)

\* a disable that runs serve_forever again on a server whose loop has ended
disableRestarting(e) ==
    IF e.server
    THEN IF e.loop = "done"
         THEN [e EXCEPT !.loop = "started"]
         ELSE [e EXCEPT !.shutdown_request = TRUE]
    ELSE e

\* EndPoint.disable: server.shutdown() sets the request flag (and then waits)
disable(e) ==
    IF e.server THEN [e EXCEPT !.shutdown_request = TRUE] ELSE e

\* remove_endpoint without its test of name: the lookup of a name that is no
\* key raises KeyError
RemoveCallUnchecked(c, name) ==
    /\ tstate = "up"
    /\ pc[c] = "idle"
    /\ IF name \in Keys(end_points)
       THEN LET o == DictGet(end_points, name)
            IN /\ eps' = [eps EXCEPT ![o] = disable(eps[o])]
               /\ Goto(c, "rm_wait")
               /\ loc' = [loc EXCEPT ![c] = [NoLoc EXCEPT !.name = name, !.obj = o]]
       ELSE /\ Raise(c, "KeyError")
            /\ UNCHANGED eps
    /\ UNCHANGED <<platform, tstate, transport, connected, end_points,
                   threadCounter, conns, returned, removed>>

\* remove_endpoint(name) up to the wait inside server.shutdown()
RemoveCallWith(c, name) ==
    /\ tstate = "up"
    /\ pc[c] = "idle"
    /\ IF name \in Keys(end_points)
       THEN LET o == DictGet(end_points, name)
            IN /\ eps' = [eps EXCEPT ![o] = disable(eps[o])]
               /\ IF eps[o].server
                  THEN /\ Goto(c, "rm_wait")
                       /\ loc' = [loc EXCEPT ![c] = [NoLoc EXCEPT !.name = name, !.obj = o]]
                  ELSE Return(c)
       ELSE /\ Return(c)
            /\ UNCHANGED eps
    /\ UNCHANGED <<platform, tstate, transport, connected, end_points,
                   threadCounter, conns, returned, removed>>

RemoveCall(c) == \E name \in Names : RemoveCallWith(c, name)

\* server.shutdown(): self.__is_shut_down.wait() is over, remove_endpoint returns
RemoveWait(c) ==
    /\ pc[c] = "rm_wait"
    /\ eps[loc[c].obj].is_shut_down
    /\ removed' = removed \cup {loc[c].name}
    /\ Return(c)
    /\ UNCHANGED <<platform, tstate, transport, connected, end_points, eps,
                   threadCounter, conns, returned>>

remove_endpoint(c) ==
    \/ RemoveCall(c)
    \/ RemoveWait(c)

(* --------------------------- list_endpoints --------------------------- *)
\* what list_endpoints returns when nothing runs between its steps
ListEndpoints == [name \in Keys(end_points) |-> Get(eps[DictGet(end_points, name)])]

\* list_endpoints: remotes = {} and the iterator of self.end_points.items()
ListCall(c) ==
    /\ tstate = "up"
    /\ pc[c] = "idle"
    /\ Goto(c, "list_iter")
    /\ loc' = [loc EXCEPT ![c] = [NoLoc EXCEPT !.used = Len(end_points)]]
    /\ UNCHANGED <<platform, tstate, transport, connected, end_points, eps,
                   threadCounter, conns, returned, removed>>

\* one turn of the loop: the dict iterator raises when the dict changed size
ListIter(c) ==
    /\ pc[c] = "list_iter"
    /\ IF Len(end_points) # loc[c].used
       THEN Raise(c, "RuntimeError")
       ELSE IF loc[c].it >= Len(end_points)
       THEN /\ Goto(c, "list_ret")
            /\ UNCHANGED loc
       ELSE LET item == end_points[loc[c].it + 1]
            IN /\ loc' = [loc EXCEPT ![c].it = @ + 1,
                                     ![c].res = (item.name :> Get(eps[item.ep])) @@ @]
               /\ UNCHANGED pc
    /\ UNCHANGED <<platform, tstate, transport, connected, end_points, eps,
                   threadCounter, conns, returned, removed>>

\* return remotes
ListReturn(c) ==
    /\ pc[c] = "list_ret"
    /\ Return(c)
    /\ UNCHANGED <<platform, tstate, transport, connected, end_points, eps,
                   threadCounter, conns, returned, removed>>

list_endpoints(c) ==
    \/ ListCall(c)
    \/ ListIter(c)
    \/ ListReturn(c)

(* ----------------------------- disconnect ----------------------------- *)
\* the calls of disconnect so far, finished or not
Disconnects ==
    transport.closes
    + Cardinality({c \in Callers : pc[c] \in {"dc_iter", "dc_wait", "dc_close"}})

\* disconnect: the iterator of self.end_points.items()
DisconnectCall(c) ==
    /\ tstate = "up"
    /\ pc[c] = "idle"
    /\ Disconnects < MaxDisconnects
    /\ Goto(c, "dc_iter")
    /\ loc' = [loc EXCEPT ![c] = [NoLoc EXCEPT !.used = Len(end_points)]]
    /\ UNCHANGED <<platform, tstate, transport, connected, end_points, eps,
                   threadCounter, conns, returned, removed>>

\* one turn of the loop: self.remove_endpoint(name) up to the wait in shutdown()
DisconnectIter(c) ==
    /\ pc[c] = "dc_iter"
    /\ IF Len(end_points) # loc[c].used
       THEN /\ Raise(c, "RuntimeError")
            /\ UNCHANGED eps
       ELSE IF loc[c].it >= Len(end_points)
       THEN /\ Goto(c, "dc_close")
            /\ UNCHANGED <<loc, eps>>
       ELSE LET item == end_points[loc[c].it + 1]
            IN /\ eps' = [eps EXCEPT ![item.ep] = disable(eps[item.ep])]
               /\ loc' = [loc EXCEPT ![c].it = @ + 1, ![c].name = item.name,
                                     ![c].obj = item.ep]
               /\ Goto(c, IF eps[item.ep].server THEN "dc_wait" ELSE "dc_iter")
    /\ UNCHANGED <<platform, tstate, transport, connected, end_points,
                   threadCounter, conns, returned, removed>>

\* the wait in shutdown() is over: remove_endpoint returns into the loop
DisconnectWait(c) ==
    /\ pc[c] = "dc_wait"
    /\ eps[loc[c].obj].is_shut_down
    /\ removed' = removed \cup {loc[c].name}
    /\ Goto(c, "dc_iter")
    /\ UNCHANGED <<platform, tstate, transport, connected, end_points, eps,
                   threadCounter, loc, conns, returned>>

\* paramiko's Transport.close(): the transport is inactive and every channel
\* it carries is closed
TransportClose(t) ==
    [active |-> FALSE, authenticated |-> FALSE, closes |-> t.closes + 1]

ChannelsClosed(cs) ==
    [k \in DOMAIN cs |->
        IF cs[k].chan = "open" THEN [cs[k] EXCEPT !.chan = "closed"] ELSE cs[k]]

\* self.transport.close(), and disconnect returns
DisconnectClose(c) ==
    /\ pc[c] = "dc_close"
    /\ transport' = TransportClose(transport)
    /\ conns' = ChannelsClosed(conns)
    /\ Return(c)
    /\ UNCHANGED <<platform, tstate, connected, end_points, eps, threadCounter,
                   returned, removed>>

disconnect(c) ==
    \/ DisconnectCall(c)
    \/ DisconnectIter(c)
    \/ DisconnectWait(c)
    \/ DisconnectClose(c)

(* ------------------- the server thread: serve_forever ----------------- *)
\* a serve_forever that begins by taking back a shutdown request made before
\* it ran
ServeStartResetting(o) ==
    /\ eps[o].loop = "started"
    /\ eps' = [eps EXCEPT ![o].is_shut_down = FALSE, ![o].loop = "serving",
                          ![o].shutdown_request = FALSE]
    /\ UNCHANGED <<platform, tstate, transport, connected, end_points,
                   threadCounter, pc, loc, conns, returned, removed>>

\* serve_forever begins: self.__is_shut_down.clear()
ServeStart(o) ==
    /\ eps[o].loop = "started"
    /\ eps' = [eps EXCEPT ![o].is_shut_down = FALSE, ![o].loop = "serving"]
    /\ UNCHANGED <<platform, tstate, transport, connected, end_points,
                   threadCounter, pc, loc, conns, returned, removed>>

\* the loop of serve_forever sees the shutdown request; its finally clause
ServeExit(o) ==
    /\ eps[o].loop = "serving"
    /\ eps[o].shutdown_request
    /\ eps' = [eps EXCEPT ![o].shutdown_request = FALSE, ![o].is_shut_down = TRUE,
                          ![o].loop = "done"]
    /\ UNCHANGED <<platform, tstate, transport, connected, end_points,
                   threadCounter, pc, loc, conns, returned, removed>>

\* a connection accepted from the listen queue, with its request thread
NewConn(o, thread) ==
    [ep |-> o, thread |-> thread, pc |-> "open", client |-> "open", chan |-> "none",
     raised |-> FALSE, r |-> {}, data |-> <<>>,
     cin |-> <<>>, rin |-> <<>>,
     fromClient |-> <<>>, toChan |-> <<>>, fromChan |-> <<>>, toClient |-> <<>>]

\* a server without ThreadingMixIn: process_request runs handle in the thread
\* of serve_forever, which accepts again when that request is finished
AcceptInLoop(o) ==
    /\ eps[o].loop = "serving"
    /\ ~eps[o].shutdown_request
    /\ eps[o].backlog > 0
    /\ \A k \in DOMAIN conns : conns[k].ep = o => conns[k].pc = "done"
    /\ eps' = [eps EXCEPT ![o].backlog = @ - 1]
    /\ threadCounter' = threadCounter + 1
    /\ conns' = Append(conns, NewConn(o, ThreadName(threadCounter)))
    /\ UNCHANGED <<platform, tstate, transport, connected, end_points,
                   pc, loc, returned, removed>>

\* the loop of serve_forever: no shutdown request, the listening socket is
\* readable: _handle_request_noblock accepts the client and process_request
\* hands it to a new thread
Accept(o) ==
    /\ eps[o].loop = "serving"
    /\ ~eps[o].shutdown_request
    /\ eps[o].backlog > 0
    /\ eps' = [eps EXCEPT ![o].backlog = @ - 1]
    /\ threadCounter' = threadCounter + 1
    /\ conns' = Append(conns, NewConn(o, ThreadName(threadCounter)))
    /\ UNCHANGED <<platform, tstate, transport, connected, end_points,
                   pc, loc, returned, removed>>

RECURSIVE Waiting(_)
\* the connections waiting in the listen queues of the first n servers
Waiting(n) == IF n = 0 THEN 0 ELSE eps[n].backlog + Waiting(n - 1)

\* the clients that have connected so far
Clients == Len(conns) + Waiting(Len(eps))

\* a client of the host connects to port p: the connection waits in the listen
\* queue of a socket listening on p
ClientConnect(p) ==
    /\ Clients < MaxClients
    /\ \E o \in ServerSockOn(p, {"listening"}) :
        eps' = [eps EXCEPT ![o].backlog = @ + 1]
    /\ UNCHANGED <<platform, tstate, transport, connected, end_points,
                   threadCounter, pc, loc, conns, returned, removed>>

(* ------------- the request thread: handle, then shutdown_request ------ *)
Prefix(s, n) == SubSeq(s, 1, n)

Suffix(s, n) == SubSeq(s, n + 1, Len(s))

\* the ways open_channel can end
OpenOutcomes == IF is_connected(transport) THEN {"channel", "raises", "none"} ELSE {"raises"}

\* a request thread that ends without shutdown_request(request)
FinishedClientLeft(cn, raised) ==
    [cn EXCEPT !.pc = "done", !.raised = raised, !.r = {}, !.data = <<>>]

\* the request thread ends: handle is over and process_request_thread's finally
\* runs shutdown_request(request), which closes the client socket
Finished(cn, raised) ==
    [cn EXCEPT !.pc = "done", !.client = "closed", !.raised = raised,
               !.r = {}, !.data = <<>>]

\* a loop that goes on to the next select after a zero-length read
ClosedHalf(cn) == [cn EXCEPT !.pc = "select", !.r = {}]

\* handle after its loop: chan.close() and self.request.close()
Closed(cn) == Finished([cn EXCEPT !.chan = "closed"], FALSE)

\* handle: open_channel, with its two failure exits (the except clause, whose
\* own log call raises, and the chan is None return)
HandleOpen(k) ==
    /\ conns[k].pc = "open"
    /\ \E out \in OpenOutcomes :
        IF out = "channel"
        THEN \E cin \in SeqsUpTo(Bytes, MaxMsg), rin \in SeqsUpTo(Bytes, MaxMsg) :
                conns' = [conns EXCEPT ![k].chan = "open", ![k].pc = "select",
                                       ![k].cin = cin, ![k].rin = rin]
        ELSE conns' = [conns EXCEPT ![k] = Finished(conns[k], out = "raises")]
    /\ UNCHANGED tunnelVars

\* the peers select can report readable: a peer is readable when it has data
\* or is at its end of stream, and either can come about while select waits
Readable(cn) == {"client", "chan"}

AfterSelect(r) == IF "client" \in r THEN "client_recv" ELSE "chan_recv"

\* r, w, x = select.select([self.request, chan], [], [])
RelaySelect(k) ==
    /\ conns[k].pc = "select"
    /\ \E r \in SUBSET Readable(conns[k]) :
        /\ r # {}
        /\ conns' = [conns EXCEPT ![k].r = r, ![k].pc = AfterSelect(r)]
    /\ UNCHANGED tunnelVars

\* data = self.request.recv(1024); a zero-length read breaks out of the loop
RelayClientRecv(k) ==
    /\ conns[k].pc = "client_recv"
    /\ LET cn == conns[k]
       IN IF cn.cin = <<>>
          THEN conns' = [conns EXCEPT ![k] = Closed(cn)]
          ELSE \E n \in 1..Min(Len(cn.cin), RecvSize) :
                conns' = [conns EXCEPT ![k].data = Prefix(cn.cin, n),
                                       ![k].cin = Suffix(cn.cin, n),
                                       ![k].fromClient = @ \o Prefix(cn.cin, n),
                                       ![k].pc = "chan_send"]
    /\ UNCHANGED tunnelVars

\* the bytes a send of data takes: at least one, at most all
SendAccepts(data) == 1..Len(data)

\* where the loop goes on after the client's data went to the channel
AfterChanSend(r) == IF "chan" \in r THEN "chan_recv" ELSE "select"

\* chan.send(data): its result is not looked at
RelayChanSend(k) ==
    /\ conns[k].pc = "chan_send"
    /\ LET cn == conns[k]
       IN IF cn.chan = "closed"
          THEN conns' = [conns EXCEPT ![k] = Finished(cn, TRUE)]
          ELSE \E n \in SendAccepts(cn.data) :
                conns' = [conns EXCEPT ![k].toChan = @ \o Prefix(cn.data, n),
                                       ![k].data = <<>>,
                                       ![k].r = IF "chan" \in cn.r THEN cn.r ELSE {},
                                       ![k].pc = AfterChanSend(cn.r)]
    /\ UNCHANGED tunnelVars

\* data = chan.recv(1024); a zero-length read breaks out of the loop
RelayChanRecv(k) ==
    /\ conns[k].pc = "chan_recv"
    /\ LET cn == conns[k]
       IN IF cn.rin = <<>>
          THEN conns' = [conns EXCEPT ![k] = Closed(cn)]
          ELSE \E n \in 1..Min(Len(cn.rin), RecvSize) :
                conns' = [conns EXCEPT ![k].data = Prefix(cn.rin, n),
                                       ![k].rin = Suffix(cn.rin, n),
                                       ![k].fromChan = @ \o Prefix(cn.rin, n),
                                       ![k].pc = "client_send"]
    /\ UNCHANGED tunnelVars

\* self.request.send(data): its result is not looked at
RelayClientSend(k) ==
    /\ conns[k].pc = "client_send"
    /\ \E n \in SendAccepts(conns[k].data) :
        conns' = [conns EXCEPT ![k].toClient = @ \o Prefix(conns[k].data, n),
                               ![k].data = <<>>, ![k].r = {},
                               ![k].pc = "select"]
    /\ UNCHANGED tunnelVars

\* handle is left by an exception and its local chan is dropped without
\* chan.close(): the channel stays open, unless the interpreter finalizes the
\* dropped object at once, and the finalizer closes it
Dropped(cn) ==
    IF cn.chan = "open" THEN {cn, [cn EXCEPT !.chan = "closed"]} ELSE {cn}

\* a recv or a send raises (the peer reset the connection): handle is left
\* by the exception, past its two close calls
RelayIOError(k) ==
    /\ conns[k].pc \in {"client_recv", "chan_send", "chan_recv", "client_send"}
    /\ \E cn \in Dropped(conns[k]) :
        conns' = [conns EXCEPT ![k] = Finished(cn, TRUE)]
    /\ UNCHANGED tunnelVars

handle(k) ==
    \/ HandleOpen(k)
    \/ RelaySelect(k)
    \/ RelayClientRecv(k)
    \/ RelayChanSend(k)
    \/ RelayChanRecv(k)
    \/ RelayClientSend(k)
    \/ RelayIOError(k)

(* --------------------------- specifications --------------------------- *)
serve_forever(o) ==
    \/ ServeStart(o)
    \/ ServeExit(o)
    \/ Accept(o)

\* the methods of the Tunnel, called by thread c
Tunnel(c) ==
    \/ add_endpoint(c)
    \/ remove_endpoint(c)
    \/ list_endpoints(c)
    \/ disconnect(c)

\* the threads the program starts, and the peers
Serving ==
    \/ \E o \in DOMAIN eps : serve_forever(o)
    \/ \E p \in Ports : ClientConnect(p)
    \/ \E k \in DOMAIN conns : handle(k)

\* one thread calls the Tunnel; clients connect and are served
Next ==
    \/ Construct
    \/ Tunnel(1)
    \/ Serving

\* with one calling thread no two sockets ever contend for a port, and the
\* host's rule for that is never asked
Init == InitOn({"posix"}, "new")

Spec == Init /\ [][Next]_vars

\* several threads call the Tunnel at once
NextConcurrent ==
    \/ \E c \in Callers : Tunnel(c) \/ Unwind(c)
    \/ \E o \in DOMAIN eps : ServeStart(o) \/ ServeExit(o)

\* a Tunnel that connected, on either kind of host
InitConcurrent == InitOn(Platforms, "up")

SpecConcurrent == InitConcurrent /\ [][NextConcurrent]_vars

\* one relay: a client of the first endpoint was accepted and its channel is
\* open; the peers hold the bytes they will send
InitRelay ==
    /\ platform = "posix"
    /\ tstate = "up"
    /\ transport = [active |-> TRUE, authenticated |-> TRUE, closes |-> 0]
    /\ connected = TRUE
    /\ eps = <<[NewEndPoint(1, RemoteOf(1)) EXCEPT
                    !.thread = 1, !.server = TRUE, !.sock = "listening",
                    !.port = 1, !.loop = "serving"]>>
    /\ returned = {[id |-> 1, ep |-> 1, remote |-> RemoteOf(1)]}
    /\ end_points = <<[name |-> 1, ep |-> 1]>>
    /\ threadCounter = 2
    /\ pc = [c \in Callers |-> "idle"]
    /\ loc = [c \in Callers |-> NoLoc]
    /\ \E cin \in SeqsUpTo(Bytes, MaxStream), rin \in SeqsUpTo(Bytes, MaxStream) :
        conns = <<[NewConn(1, 2) EXCEPT !.chan = "open", !.pc = "select",
                                        !.cin = cin, !.rin = rin]>>
    /\ removed = {}

Relay(k) ==
    \/ RelaySelect(k)
    \/ RelayClientRecv(k)
    \/ RelayChanSend(k)
    \/ RelayChanRecv(k)
    \/ RelayClientSend(k)
    \/ RelayIOError(k)

NextRelay == \E k \in DOMAIN conns : Relay(k)

SpecRelay == InitRelay /\ [][NextRelay]_vars

\* the thread of serve_forever of the o-th end point, once there is one
ServeThread(o) == o \in DOMAIN eps /\ serve_forever(o)

\* a caller blocked in server.shutdown() goes on when the event is set
ShutdownWait(c) == RemoveWait(c) \/ DisconnectWait(c)

\* every started thread of serve_forever gets to run, and so does a caller
\* whose wait is over
Fairness ==
    /\ \A o \in 1..MaxEndpoints : WF_vars(ServeThread(o))
    /\ \A c \in Callers : WF_vars(ShutdownWait(c))

SpecFair == Init /\ [][Next]_vars /\ Fairness

(* ------------------------------ the claims ---------------------------- *)
\* disconnect() has returned at least once
Disconnected == transport.closes > 0

\* the end point objects in the registry
Registered == {end_points[i].ep : i \in DOMAIN end_points}

\* the end point's server accepts, or will once its thread runs
Running(o) == eps[o].sock = "listening" /\ eps[o].loop \in {"started", "serving"}

\* the relay of connection k is in progress
Relaying(k) == conns[k].chan = "open" /\ conns[k].pc # "done"

\* C1: in a relay, whenever the loop is back at select or has ended without an
\* exception, the bytes delivered to the channel are exactly the bytes read
\* from the client socket, and the bytes delivered to the client socket are
\* exactly the bytes read from the channel.
C1_RelayDeliversEveryByte ==
    \A k \in DOMAIN conns :
        (conns[k].pc \in {"select", "done"} /\ ~conns[k].raised)
        => /\ conns[k].toChan = conns[k].fromClient
           /\ conns[k].toClient = conns[k].fromChan

\* C2: a registered name remove_endpoint has returned for is no key of what
\* list_endpoints returns.
C2_RemovedNotListed ==
    \A name \in removed : name \notin DOMAIN ListEndpoints

\* C3: no step of remove_endpoint changes a relay, and once remove_endpoint has
\* returned for a registered end point that end point's listening socket is
\* closed.
C3_RemoveClosesListener ==
    [][(\E c \in Callers : remove_endpoint(c))
       => /\ conns' = conns
          /\ \A name \in removed' :
                eps'[DictGet(end_points', name)].sock = "closed"]_vars

\* C4: when disconnect returns, list_endpoints returns the empty mapping, no
\* end point's socket listens any more and the transport has been closed.
C4_DisconnectLeavesNothing ==
    [][(\E c \in Callers : DisconnectClose(c))
       => /\ Keys(end_points') = {}
          /\ \A o \in DOMAIN eps' : eps'[o].sock # "listening"
          /\ ~transport'.active]_vars

\* C5: a call of add_endpoint made after disconnect has returned ends at once
\* in a not-connected error, with the registry, the end points and the threads
\* as they were.
C5_AddAfterDisconnectFails ==
    [][\A c \in Callers :
        (Disconnected /\ AddProbe(c))
        => /\ pc'[c] = "raised"
           /\ loc'[c].err = "NotConnected"
           /\ UNCHANGED <<end_points, eps, threadCounter>>]_vars

\* C6: the construction of the Tunnel fails whenever the transport is not
\* active and authenticated after the connect, and while the transport is not
\* active and authenticated no end point is created and none is registered.
C6_ConnectFailureSurfaces ==
    [][/\ Construct => (tstate' = "up" => is_connected(transport'))
       /\ ~is_connected(transport) => (Len(eps') = Len(eps) /\ end_points' = end_points)
      ]_vars

\* C7: for every identifier add_endpoint has returned, list_endpoints has an
\* entry under it, whose local port is the port the end point's server socket
\* is bound to and whose remote address is the one the call was given.
C7_ListedAddresses ==
    \A x \in returned :
        /\ x.id \in DOMAIN ListEndpoints
        /\ eps[x.ep].sock = "listening"
        /\ ListEndpoints[x.id] = <<eps[x.ep].port, x.remote>>

\* two calls of add_endpoint have returned, and both end points are listed
C7_Witness ==
    /\ Cardinality(returned) = 2
    /\ Cardinality(DOMAIN ListEndpoints) = 2
    /\ \E x \in returned, y \in returned : ListEndpoints[x.id] # ListEndpoints[y.id]

\* C8: no two end points that are registered and running have the same local
\* port.
C8_DistinctLocalPorts ==
    \A o1 \in Registered, o2 \in Registered :
        (o1 # o2 /\ Running(o1) /\ Running(o2))
        => eps[o1].local_address # eps[o2].local_address

\* C9: a call of remove_endpoint with a name that is no key of the registry
\* returns without an error and leaves the registry, the end points with their
\* servers, the relays and the transport as they were.
C9_RemoveAbsentIsNoOp ==
    [][\A c \in Callers, name \in Names :
        (name \notin Keys(end_points) /\ RemoveCallWith(c, name))
        => /\ pc'[c] = "idle"
           /\ UNCHANGED <<end_points, eps, conns, transport, connected,
                          threadCounter, returned, removed>>]_vars

\* the registry holds an end point, a relay is in progress, and
\* remove_endpoint can be called with a name that is no key
C9_Witness ==
    /\ end_points # <<>>
    /\ \E k \in DOMAIN conns : Relaying(k)
    /\ \E name \in Names \ Keys(end_points) : ENABLED RemoveCallWith(1, name)

\* C10: when open_channel fails for an accepted client (it raises or returns
\* no channel), the request thread ends with the client socket closed and
\* without a relay, and the end point's server is as it was: the accept loop
\* goes on.
C10_OpenFailureContained ==
    [][\A k \in DOMAIN conns :
        (conns[k].pc = "open" /\ conns'[k] # conns[k] /\ conns'[k].chan # "open")
        => /\ conns'[k].pc = "done"
           /\ conns'[k].client = "closed"
           /\ conns'[k].chan = "none"
           /\ eps' = eps]_vars

\* open_channel raised for one client of an end point, and a later client of
\* the same end point, whose server still runs, is being relayed
C10_Witness ==
    \E k1 \in DOMAIN conns, k2 \in DOMAIN conns :
        /\ k1 < k2
        /\ conns[k1].ep = conns[k2].ep
        /\ conns[k1].pc = "done" /\ conns[k1].chan = "none" /\ conns[k1].raised
        /\ conns[k1].client = "closed"
        /\ Relaying(k2)
        /\ Running(conns[k2].ep)

\* C11: no call of add_endpoint, remove_endpoint, list_endpoints or disconnect
\* is left by an error that comes from another thread's use of the registry
\* (the dict iterator's RuntimeError), whatever the interleaving of the calls.
C11_NoConcurrentAccessFailure ==
    \A c \in Callers : ~(pc[c] = "raised" /\ loc[c].err = "RuntimeError")

\* C12: when the bind or the listen of the server's socket fails in
\* add_endpoint, the call is left by OSError, which reaches the caller, the
\* registry is as it was, no thread was created for the end point, and the
\* socket the server made is closed.
C12_BindFailureLeavesNothing ==
    [][\A c \in Callers :
        (pc[c] \in {"add_bind", "add_activate"} /\ pc'[c] = "raised")
        => /\ loc'[c].err = "OSError"
           /\ end_points' = end_points
           /\ threadCounter' = threadCounter
           /\ LET e == eps'[loc[c].obj]
              IN /\ e.sock = "closed"
                 /\ e.thread = 0 /\ ~e.server /\ e.loop = "none"
                 /\ loc[c].obj \notin {end_points'[i].ep : i \in DOMAIN end_points'}]_vars

\* a call of add_endpoint was left by OSError after its server failed to bind
\* or to listen, while another end point is registered and listens
C12_Witness ==
    \E c \in Callers, o \in DOMAIN eps :
        /\ pc[c] = "raised" /\ loc[c].err = "OSError"
        /\ eps[o].sock = "closed" /\ eps[o].thread = 0
        /\ \E o2 \in Registered : eps[o2].sock = "listening" /\ eps[o2].port = eps[o].local_address

\* C13: when the request thread of a relay has ended, the client socket and
\* the channel of the relay are both closed, whether the loop was left by a
\* zero-length read or by an error of a recv or a send.
C13_RelayEndClosesBothPeers ==
    \A k \in DOMAIN conns :
        (conns[k].pc = "done" /\ conns[k].chan # "none")
        => (conns[k].client = "closed" /\ conns[k].chan = "closed")

\* C14: whenever the loop of serve_forever runs without a shutdown request and
\* a client waits in the listen queue, the loop can accept it and start its
\* request thread, whatever the request threads of earlier clients are doing;
\* and accepting leaves the earlier connections as they are.
C14_AcceptNeverWaits ==
    /\ \A o \in DOMAIN eps :
        (eps[o].loop = "serving" /\ ~eps[o].shutdown_request /\ eps[o].backlog > 0)
        => ENABLED Accept(o)
    /\ \A k1 \in DOMAIN conns, k2 \in DOMAIN conns :
        k1 # k2 => conns[k1].thread # conns[k2].thread

\* two clients of one end point are relayed at the same time
C14_Witness ==
    \E k1 \in DOMAIN conns, k2 \in DOMAIN conns :
        /\ k1 < k2
        /\ conns[k1].ep = conns[k2].ep
        /\ Relaying(k1) /\ Relaying(k2)

\* the bytes connection k has taken from and given to its two peers
Moved(cn) == <<cn.cin, cn.rin, cn.fromClient, cn.toChan, cn.fromChan, cn.toClient>>

\* the next recv of connection k finds its peer at the end of its stream
AtZeroRead(cn) ==
    \/ cn.pc = "client_recv" /\ cn.cin = <<>>
    \/ cn.pc = "chan_recv" /\ cn.rin = <<>>

\* C15: a recv that returns no bytes, from the client socket or from the
\* channel, ends the relay in that step, whichever peers select had reported:
\* both peers are closed, and from then on nothing is read from or written to
\* either of them.
C15_ZeroLengthReadEndsRelay ==
    [][\A k \in DOMAIN conns :
        /\ (AtZeroRead(conns[k]) /\ conns'[k] # conns[k] /\ ~conns'[k].raised)
           => /\ conns'[k].pc = "done"
              /\ conns'[k].client = "closed"
              /\ conns'[k].chan = "closed"
              /\ Moved(conns'[k]) = Moved(conns[k])
        /\ (conns[k].pc = "done") => (conns'[k] = conns[k])]_vars

\* a relay was ended by the client's end of stream while the channel still
\* had bytes for the client
C15_Witness ==
    \E k \in DOMAIN conns :
        /\ conns[k].pc = "done" /\ ~conns[k].raised
        /\ conns[k].client = "closed" /\ conns[k].chan = "closed"
        /\ conns[k].cin = <<>> /\ conns[k].rin # <<>>
        /\ conns[k].fromClient # <<>>

\* how far an end point is in its life: 0 constructed, 1 its thread of
\* serve_forever was started, 2 serve_forever has returned
Stage(e) == IF e.loop = "none" THEN 0 ELSE IF e.loop = "done" THEN 2 ELSE 1

\* C16: no step takes an end point back: a constructed one stays constructed
\* or gets its thread started, a started one runs or has stopped, and one
\* whose serve_forever has returned stays stopped, also when remove_endpoint
\* or disconnect disable it again.
C16_EndPointOnlyForward ==
    [][\A o \in DOMAIN eps : Stage(eps'[o]) >= Stage(eps[o])]_vars

\* an end point was removed, and then disabled once more after it had
\* stopped: the call has returned and the end point is still stopped
C16_Witness ==
    \E i \in DOMAIN end_points :
        /\ end_points[i].name \in removed
        /\ Stage(eps[end_points[i].ep]) = 2
        /\ eps[end_points[i].ep].shutdown_request
        /\ \A c \in Callers : pc[c] = "idle"

\* C17: over all the calls made on the Tunnel, the transport's close is
\* invoked at most once, also when disconnect is called more than once.
C17_SessionClosedOnce == transport.closes <= 1

\* C18: whenever the transport has been closed by disconnect, no end point of
\* the Tunnel is running: none has a listening socket with a started thread
\* of serve_forever.
C18_NoEndPointOutlivesSession ==
    Disconnected => \A o \in DOMAIN eps : ~Running(o)

\* the identifiers add_endpoint has returned
ReturnedIds == {x.id : x \in returned}

\* C19: the identifier add_endpoint registers and returns is no key of the
\* registry and was not returned before, so the assignment adds an entry and
\* replaces none; and once an end point has its thread, getId gives the same
\* name in every later state, also after the end point has stopped.
C19_FreshStableIdentifier ==
    [][/\ \A c \in Callers :
            (pc[c] = "add_register" /\ pc'[c] = "idle")
            => /\ GetId(eps[loc[c].obj]) \notin Keys(end_points)
               /\ GetId(eps[loc[c].obj]) \notin ReturnedIds
               /\ GetId(eps[loc[c].obj]) \in ReturnedIds'
               /\ Len(end_points') = Len(end_points) + 1
       /\ \A x \in returned : GetId(eps'[x.ep]) = x.id
      ]_vars

\* two calls of add_endpoint have returned, a request thread was named
\* between them, and the first end point has stopped and kept its identifier
C19_Witness ==
    \E x \in returned, y \in returned :
        /\ x.id < y.id
        /\ \E k \in DOMAIN conns : x.id < conns[k].thread /\ conns[k].thread < y.id
        /\ Stage(eps[x.ep]) = 2
        /\ GetId(eps[x.ep]) = x.id
        /\ Keys(end_points) = {x.id, y.id}

\* C20: a caller that waits in server.shutdown(), called by remove_endpoint
\* for a registered end point, gets out of the wait, whether the thread of
\* serve_forever had begun to serve or not and whether the end point was
\* removed before or not; and for every name remove_endpoint has returned
\* for, serve_forever has returned, so that server accepts no client any more.
C20_RemoveReturns ==
    /\ \A c \in Callers : (pc[c] \in {"rm_wait", "dc_wait"}) ~> (pc[c] \notin {"rm_wait", "dc_wait"})
    /\ [](\A name \in removed : eps[DictGet(end_points, name)].loop = "done")

\* remove_endpoint has returned for an end point and is called for it a
\* second time: the caller is in the wait of shutdown(), serve_forever has
\* returned, and a client is left waiting in the listen queue
C20_Witness ==
    \E c \in Callers :
        /\ pc[c] = "rm_wait"
        /\ loc[c].name \in removed
        /\ eps[loc[c].obj].loop = "done"
        /\ eps[loc[c].obj].backlog > 0
====
